---- MODULE Spec2Model ----
(***************************************************************************)
(* Community-Connect: phone OTP authentication and registration.           *)
(*                                                                         *)
(* The model follows server/routes.ts (the auth handlers and the services  *)
(* endpoints), server/storage.ts (MemStorage) and the PhoneAuth component  *)
(* of the client.  Node runs one handler at a time and a handler gives up  *)
(* control only at an `await`; every MemStorage method                     *)
(* has no await of its own, so its body runs when it is called and the     *)
(* handler resumes in a later turn of the event loop.  One action of the   *)
(* model is one such turn: the code from one await to the next storage     *)
(* call (inclusive).                                                       *)
(***************************************************************************)
EXTENDS Integers, Sequences, FiniteSets, TLC

VARIABLES otps, users, services, now, reqs, client

vars == <<otps, users, services, now, reqs, client>>

(***************************************************************************)
(* Bounds of the model.                                                    *)
(***************************************************************************)
\* OTP records the store may hold (send-otp is not started beyond it).
MaxOtps == 2
\* Clock readings: now ranges over 0, TickMs, ..., MaxTicks * TickMs.
MaxTicks == 2
\* Math.random() is drawn from { n / RandDen : n \in RandNums }.
RandDen == 1000000
\* Service records the store may hold (POST /api/services is not started beyond it).
MaxServices == 2
\* Request slots: handlers that may be in flight at the same time.
ReqIds == {1, 2}
\* The slot used when requests are served one at a time.
SeqIds == {1}

(***************************************************************************)
(* Values.  A JS string that the code inspects character by character      *)
(* (phone, otp) is a sequence of one-character strings; an absent field    *)
(* (undefined) and the empty string are both falsy for the `!x` tests of   *)
(* routes.ts and are both written as the empty value.                      *)
(***************************************************************************)
None == <<>>
Some(x) == <<x>>

DigitChars == <<"0", "1", "2", "3", "4", "5", "6", "7", "8", "9">>
Digits == {DigitChars[i] : i \in 1..10}

\* "5551234567", "555-123-4567", "555-1234" and a missing phone.
PhoneA == <<"5", "5", "5", "1", "2", "3", "4", "5", "6", "7">>
PhoneAFmt == <<"5", "5", "5", "-", "1", "2", "3", "-", "4", "5", "6", "7">>
PhoneShort == <<"5", "5", "5", "-", "1", "2", "3", "4">>
NoPhone == <<>>
RawPhones == {PhoneA, PhoneAFmt, PhoneShort, NoPhone}
\* The request bodies drawn when handlers interleave.
ConcPhones == {PhoneAFmt, NoPhone}

\* Mutant: the phone is used as it was sent.
CleanPhone_AsSent(phone) == phone
\* phone.replace(/\D/g, '')
CleanPhone(phone) == SelectSeq(phone, LAMBDA ch : ch \in Digits)

\* Mutant: a 7-digit local number passes the length test.
MinPhoneDigits_LocalNumber == 10 - 3
MinPhoneDigits == 10
OtpTtlMs == 5 * 60 * 1000
TickMs == OtpTtlMs

\* Number.prototype.toString() of a non-negative integer.
RECURSIVE IntToString(_)
IntToString(n) ==
    IF n < 10 THEN <<DigitChars[n + 1]>>
    ELSE IntToString(n \div 10) \o <<DigitChars[(n % 10) + 1]>>

\* Math.floor(100000 + Math.random() * 900000) with Math.random() = n / RandDen.
\* (No double rounding reaches 1000000: the largest double below 1 gives
\* 1000000 - 2^-33, which is representable and floors to 999999.)
\* n * 900000 is split as (n * 900) * 1000 to stay within 32-bit integers.
ScaleRandom(n) ==
    LET x == n * 900
    IN  ((x \div RandDen) * 1000) + (((x % RandDen) * 1000) \div RandDen)
\* Mutant: Math.floor(Math.random() * 900000), the offset forgotten.
OtpNumber_NoOffset(n) == ScaleRandom(n)
OtpNumber(n) == 100000 + ScaleRandom(n)
GenerateOtp(n) == IntToString(OtpNumber(n))

RandNums == {0, RandDen - 1}
NoCode == <<>>
RequestCodes == {GenerateOtp(n) : n \in RandNums} \cup {NoCode}

Roles == {"resident", "president"}
NoProfile == [name |-> "", flat |-> "", floor |-> "", block |-> "", role |-> ""]
ProfileResident ==
    [name |-> "Asha", flat |-> "12", floor |-> "1", block |-> "A", role |-> "resident"]
ProfilePresident ==
    [name |-> "Ravi", flat |-> "34", floor |-> "3", block |-> "B", role |-> "president"]
ProfileBadRole == [ProfileResident EXCEPT !.role = "admin"]
Profiles == {NoProfile, ProfileResident, ProfilePresident, ProfileBadRole}
ConcProfiles == {NoProfile, ProfileResident, ProfilePresident}
\* Every shape of profile: besides the above, one field left empty.
ProfileFields == {"name", "flat", "floor", "block", "role"}
AllProfiles ==
    Profiles \cup {[ProfileResident EXCEPT ![f] = ""] : f \in ProfileFields}

\* The body of POST /api/services: each field is absent (None) or a string.
ServiceFields == {"title", "description", "price", "category", "offeredByUserId"}
FullService(userId) ==
    [title |-> Some("Plumbing"), description |-> Some("Fix taps"), price |-> Some("500"),
     category |-> Some("home"), offeredByUserId |-> Some(userId)]
\* Complete bodies of two users, and bodies with one field absent or empty.
ServiceBodies ==
    {FullService("u1"), FullService("u2")}
        \cup {[FullService("u1") EXCEPT ![f] = None] : f \in ServiceFields}
        \cup {[FullService("u1") EXCEPT ![f] = Some("")] : f \in ServiceFields}
\* The ids asked for: two that services reference and one that none does.
UserIds == {"u1", "u2", "u3"}

(***************************************************************************)
(* MemStorage.  A Map iterates in insertion order and nothing is ever      *)
(* deleted, so each map is the sequence of its values in insertion order;  *)
(* randomUUID() gives a key no other entry has, modelled by the position.  *)
(***************************************************************************)
\* Array.prototype.find: the first of the elements at the positions hits
\* (those satisfying the callback), or undefined.
FindFirst(seq, hits) ==
    IF hits = {} THEN None
    ELSE Some(seq[CHOOSE i \in hits : \A j \in hits : i <= j])

\* getUser(id): the record stored under the id, or undefined.
GetUser(us, id) == IF id \in 1..Len(us) THEN Some(us[id]) ELSE None

GetUserByPhone(us, phone) ==
    FindFirst(us, {i \in 1..Len(us) : us[i].phone = phone})

CreateUserRecord(us, insertUser, t) ==
    [id |-> Len(us) + 1, name |-> insertUser.name, phone |-> insertUser.phone,
     flat |-> insertUser.flat, floor |-> insertUser.floor, block |-> insertUser.block,
     role |-> insertUser.role, isVerified |-> FALSE, createdAt |-> t]

\* Mutant: updateUser returns the record it read, not the updated one.
UpdatedUser_Stale(us, id) ==
    IF id \in 1..Len(us) THEN Some(us[id]) ELSE None
\* updateUser(id, { isVerified: true }): the updated record, or undefined.
UpdatedUser(us, id) ==
    IF id \in 1..Len(us) THEN Some([us[id] EXCEPT !.isVerified = TRUE]) ELSE None

\* Mutant: the updated record is not put back.
UpdateUserStore_NotStored(us, id) == us
\* Mutant: the update also resets role to the column default.
UpdateUserStore_ResetsRole(us, id) ==
    IF id \in 1..Len(us)
    THEN [us EXCEPT ![id].isVerified = TRUE, ![id].role = "resident"] ELSE us
UpdateUserStore(us, id) ==
    IF id \in 1..Len(us) THEN [us EXCEPT ![id].isVerified = TRUE] ELSE us

\* Mutant: only the first four digits of the code are stored.
CreateOtpRecord_ShortCode(os, phone, code, expiresAt, t) ==
    [id |-> Len(os) + 1, phone |-> phone, otp |-> SubSeq(code, 1, 4),
     expiresAt |-> expiresAt, isUsed |-> FALSE, createdAt |-> t]
CreateOtpRecord(os, phone, code, expiresAt, t) ==
    [id |-> Len(os) + 1, phone |-> phone, otp |-> code, expiresAt |-> expiresAt,
     isUsed |-> FALSE, createdAt |-> t]

\* Mutant: expiresAt >= new Date().
IsValidOtp_ExpiryInclusive(o, phone, code, t) ==
    /\ o.phone = phone
    /\ o.otp = code
    /\ ~o.isUsed
    /\ o.expiresAt >= t
\* Mutant: the expiresAt test forgotten.
IsValidOtp_NeverExpires(o, phone, code, t) ==
    /\ o.phone = phone
    /\ o.otp = code
    /\ ~o.isUsed
\* Mutant: the isUsed test forgotten.
IsValidOtp_IgnoresUsed(o, phone, code, t) ==
    /\ o.phone = phone
    /\ o.otp = code
    /\ o.expiresAt > t
IsValidOtp(o, phone, code, t) ==
    /\ o.phone = phone
    /\ o.otp = code
    /\ ~o.isUsed
    /\ o.expiresAt > t

\* Mutant: only the phone's most recently issued record is consulted.
GetValidOtp_LatestOnly(os, phone, code, t) ==
    FindFirst(os, {i \in 1..Len(os) :
        /\ IsValidOtp(os[i], phone, code, t)
        /\ \A j \in (i + 1)..Len(os) : os[j].phone # phone})
GetValidOtp(os, phone, code, t) ==
    FindFirst(os, {i \in 1..Len(os) : IsValidOtp(os[i], phone, code, t)})

\* Mutant: nothing is written back.
MarkOtpAsUsed_Skip(os, id) == os
\* Mutant: the used record is also expired on the spot.
MarkOtpAsUsed_ExpiresRecord(os, id) ==
    IF id \in 1..Len(os)
    THEN [os EXCEPT ![id].isUsed = TRUE, ![id].expiresAt = os[id].createdAt]
    ELSE os
\* Mutant: every record with the phone and code of record id is marked.
MarkOtpAsUsed_AllMatching(os, id) ==
    IF id \in 1..Len(os)
    THEN [i \in 1..Len(os) |->
            IF os[i].phone = os[id].phone /\ os[i].otp = os[id].otp
            THEN [os[i] EXCEPT !.isUsed = TRUE] ELSE os[i]]
    ELSE os
MarkOtpAsUsed(os, id) ==
    IF id \in 1..Len(os) THEN [os EXCEPT ![id].isUsed = TRUE] ELSE os

\* Mutant: role is taken as free text.
ParsesAsInsertUser_AnyRole(p) == TRUE
\* insertUserSchema.parse: the text columns take any string, role one of the enum.
ParsesAsInsertUser(p) == p.role \in Roles

\* insertServiceSchema.parse: five string fields, each required (z.string()
\* takes the empty string).
ParsesAsInsertService(body) == \A f \in ServiceFields : body[f] # None

CreateServiceRecord(ss, insertService, t) ==
    [id |-> Len(ss) + 1, title |-> insertService.title[1],
     description |-> insertService.description[1], price |-> insertService.price[1],
     category |-> insertService.category[1],
     offeredByUserId |-> insertService.offeredByUserId[1], createdAt |-> t]

\* Mutant: the filter forgotten, as in getServices.
GetServicesByUser_Unfiltered(ss, userId) == ss
\* Array.from(this.services.values()).filter(...)
GetServicesByUser(ss, userId) ==
    SelectSeq(ss, LAMBDA service : service.offeredByUserId = userId)

(***************************************************************************)
(* Responses.  The text of an error is the sequence of its words, so that  *)
(* String.prototype.includes can be computed on it.                        *)
(***************************************************************************)
NoError == <<>>
ErrPhoneRequired == <<"Phone", "number", "is", "required">>
ErrPhoneFormat == <<"Invalid", "phone", "number", "format">>
ErrPhoneAndOtpRequired == <<"Phone", "number", "and", "OTP", "are", "required">>
ErrInvalidOtp == <<"Invalid", "or", "expired", "OTP">>
ErrNewUserFields ==
    <<"Name,", "flat,", "floor,", "block,", "and", "role", "are", "required", "for", "new", "users">>
ErrInvalidUserData == <<"Invalid", "user", "data">>
ErrUpdateFailed == <<"Failed", "to", "update", "user">>
ErrVerifyFailed == <<"Failed", "to", "verify", "OTP">>
ErrUserNotFound == <<"User", "not", "found">>
ErrInvalidServiceData == <<"Invalid", "service", "data">>

Response(status, error, user, code) ==
    [status |-> status, error |-> error, user |-> user, developmentOtp |-> code]
ErrorResponse(status, error) == Response(status, error, None, NoCode)

\* res.json(service) and res.json(services).
ServiceResponse(service) == [status |-> 200, error |-> NoError, service |-> service]
ListResponse(list) == [status |-> 200, error |-> NoError, services |-> list]

\* Mutant: the stored record is sent as it is.
PublicUser_RawRecord(u) == u
PublicUser(u) ==
    [id |-> u.id, name |-> u.name, phone |-> u.phone, flat |-> u.flat,
     floor |-> u.floor, block |-> u.block, role |-> u.role, isVerified |-> u.isVerified]

\* GET /api/user/:id: one read of the store and the answer built from it.
GetUserProfile(us, id) ==
    LET user == GetUser(us, id)
    IN  IF user = None
        THEN ErrorResponse(404, ErrUserNotFound)
        ELSE Response(200, NoError, Some(PublicUser(user[1])), NoCode)

(***************************************************************************)
(* Requests.  A slot holds one handler invocation: the await it is         *)
(* suspended at (pc), its body and locals (phone, otp, the profile fields  *)
(* name, flat, floor, block and role, cleanPhone, validOtp, user) and,     *)
(* once sent, its response.  A local is kept as long as the handler still  *)
(* reads it: phone and validOtp up to markOtpAsUsed, the profile fields up *)
(* to the new-user branch, user up to the response.  A finished slot keeps *)
(* otp and cleanPhone, which tell which call it was, and the response; a   *)
(* new request may take the slot of a finished one.  The services calls    *)
(* use service (the record createService returned), list (what             *)
(* getServices or getServicesByUser returned) and userId.                  *)
(***************************************************************************)
IdleReq ==
    [pc |-> "idle", kind |-> "none", phone |-> NoPhone, otp |-> NoCode,
     profile |-> NoProfile, cleanPhone |-> NoPhone, validOtp |-> None,
     user |-> None, service |-> None, list |-> <<>>, userId |-> "", res |-> None]

Free(r) == reqs[r].pc \in {"idle", "done"}

(***************************************************************************)
(* The PhoneAuth component (client/src/components/PhoneAuth.tsx): its      *)
(* useState cells, the handler suspended at its await of apiRequest        *)
(* (awaiting), and what it reported to its parent and to the user: the     *)
(* last argument of onAuthSuccess (authUser) and the title of the last     *)
(* toast.                                                                  *)
(***************************************************************************)
NoUserData == [name |-> "", flat |-> "", floor |-> "", block |-> ""]
ClientInit ==
    [step |-> "phone", phone |-> NoPhone, otp |-> NoCode, userData |-> NoUserData,
     loading |-> FALSE, developmentOtp |-> NoCode, awaiting |-> "none",
     authUser |-> None, toast |-> ""]

Init ==
    /\ otps = <<>>
    /\ users = <<>>
    /\ services = <<>>
    /\ now = 0
    /\ reqs = [r \in ReqIds |-> IdleReq]
    /\ client = ClientInit

\* Date.now() / new Date(): the clock only advances.
Tick ==
    /\ now < MaxTicks * TickMs
    /\ now' = now + TickMs
    /\ UNCHANGED <<otps, users, reqs, services, client>>

\* The clock read half an OTP lifetime later.
HalfTick ==
    /\ now < MaxTicks * TickMs
    /\ now' = now + (OtpTtlMs \div 2)
    /\ UNCHANGED <<otps, users, reqs, services, client>>

\* POST /api/auth/send-otp up to the await of storage.createOtp.
SendOtpStart(r, phone, n) ==
    /\ Free(r)
    /\ LET cleanPhone == CleanPhone(phone)
           otp == GenerateOtp(n)
           base == [IdleReq EXCEPT !.kind = "send"]
       IN  IF phone = NoPhone
           THEN /\ reqs' = [reqs EXCEPT ![r] = [base EXCEPT
                        !.pc = "done", !.res = Some(ErrorResponse(400, ErrPhoneRequired))]]
                /\ UNCHANGED otps
           ELSE IF Len(cleanPhone) < MinPhoneDigits
           THEN /\ reqs' = [reqs EXCEPT ![r] = [base EXCEPT
                        !.pc = "done", !.cleanPhone = cleanPhone,
                        !.res = Some(ErrorResponse(400, ErrPhoneFormat))]]
                /\ UNCHANGED otps
           ELSE /\ Len(otps) < MaxOtps
                /\ otps' = Append(otps,
                        CreateOtpRecord(otps, cleanPhone, otp, now + OtpTtlMs, now))
                /\ reqs' = [reqs EXCEPT ![r] = [base EXCEPT
                        !.pc = "sendRespond", !.cleanPhone = cleanPhone, !.otp = otp]]
    /\ UNCHANGED <<users, now, services>>

\* send-otp after the await: the success response with developmentOtp.
SendOtpRespond(r) ==
    /\ reqs[r].pc = "sendRespond"
    /\ reqs' = [reqs EXCEPT ![r].pc = "done",
                            ![r].res = Some(Response(200, NoError, None, reqs[r].otp))]
    /\ UNCHANGED <<otps, users, now, services, client>>

\* Mutant: only the phone is tested.
MissingPhoneOrOtp_PhoneOnly(phone, code) == phone = NoPhone
\* !phone || !otp
MissingPhoneOrOtp(phone, code) == phone = NoPhone \/ code = NoCode

\* POST /api/auth/verify-otp up to the await of storage.getValidOtp.
VerifyOtpStart(r, phone, code, profile) ==
    /\ Free(r)
    /\ LET cleanPhone == CleanPhone(phone)
           base == [IdleReq EXCEPT !.kind = "verify"]
       IN  IF MissingPhoneOrOtp(phone, code)
           THEN reqs' = [reqs EXCEPT ![r] = [base EXCEPT
                    !.pc = "done",
                    !.res = Some(ErrorResponse(400, ErrPhoneAndOtpRequired))]]
           ELSE reqs' = [reqs EXCEPT ![r] = [base EXCEPT
                    !.pc = "checkOtp", !.phone = phone, !.otp = code,
                    !.profile = profile,
                    !.cleanPhone = cleanPhone,
                    !.validOtp = GetValidOtp(otps, cleanPhone, code, now)]]
    /\ UNCHANGED <<otps, users, now, services>>

\* Mutant: a failed attempt burns every record of the phone.
VerifyOtpCheck_BurnsOnFailure(r) ==
    /\ reqs[r].pc = "checkOtp"
    /\ IF reqs[r].validOtp = None
       THEN /\ reqs' = [reqs EXCEPT ![r].pc = "done", ![r].phone = NoPhone,
                            ![r].profile = NoProfile,
                            ![r].res = Some(ErrorResponse(400, ErrInvalidOtp))]
            /\ otps' = [i \in 1..Len(otps) |->
                        IF otps[i].phone = reqs[r].cleanPhone
                        THEN [otps[i] EXCEPT !.isUsed = TRUE] ELSE otps[i]]
       ELSE /\ otps' = MarkOtpAsUsed(otps, reqs[r].validOtp[1].id)
            /\ reqs' = [reqs EXCEPT ![r].pc = "getUser", ![r].phone = NoPhone,
                                    ![r].validOtp = None]
    /\ UNCHANGED <<users, now, services, client>>
\* verify-otp: the test of validOtp, then storage.markOtpAsUsed.
VerifyOtpCheck(r) ==
    /\ reqs[r].pc = "checkOtp"
    /\ IF reqs[r].validOtp = None
       THEN /\ reqs' = [reqs EXCEPT ![r].pc = "done", ![r].phone = NoPhone,
                            ![r].profile = NoProfile,
                            ![r].res = Some(ErrorResponse(400, ErrInvalidOtp))]
            /\ UNCHANGED otps
       ELSE /\ otps' = MarkOtpAsUsed(otps, reqs[r].validOtp[1].id)
            /\ reqs' = [reqs EXCEPT ![r].pc = "getUser", ![r].phone = NoPhone,
                                    ![r].validOtp = None]
    /\ UNCHANGED <<users, now, services, client>>

\* verify-otp: storage.getUserByPhone.
VerifyOtpGetUser(r) ==
    /\ reqs[r].pc = "getUser"
    /\ reqs' = [reqs EXCEPT ![r].pc = "resolveUser",
                            ![r].user = GetUserByPhone(users, reqs[r].cleanPhone)]
    /\ UNCHANGED <<otps, users, now, services, client>>

\* Mutant: only the name is tested.
MissingNewUserField_NameOnly(p) == p.name = ""
\* !name || !flat || !floor || !block || !role
MissingNewUserField(p) ==
    p.name = "" \/ p.flat = "" \/ p.floor = "" \/ p.block = "" \/ p.role = ""

\* verify-otp: the new-user branch up to storage.createUser, or, for an
\* existing user, straight on to storage.updateUser.
VerifyOtpResolveUser(r) ==
    /\ reqs[r].pc = "resolveUser"
    /\ LET q == reqs[r]
           p == q.profile
       IN  IF q.user = None
           THEN IF MissingNewUserField(p)
                THEN /\ reqs' = [reqs EXCEPT ![r].pc = "done", ![r].profile = NoProfile,
                                    ![r].res = Some(ErrorResponse(400, ErrNewUserFields))]
                     /\ UNCHANGED users
                ELSE IF ~ParsesAsInsertUser(p)
                THEN /\ reqs' = [reqs EXCEPT ![r].pc = "done", ![r].profile = NoProfile,
                                    ![r].res = Some(ErrorResponse(400, ErrInvalidUserData))]
                     /\ UNCHANGED users
                ELSE LET userData == [name |-> p.name, phone |-> q.cleanPhone,
                                      flat |-> p.flat, floor |-> p.floor,
                                      block |-> p.block, role |-> p.role]
                         user == CreateUserRecord(users, userData, now)
                     IN  /\ users' = Append(users, user)
                         /\ reqs' = [reqs EXCEPT ![r].pc = "updateUser",
                                                 ![r].profile = NoProfile,
                                                 ![r].user = Some(user)]
           ELSE /\ users' = UpdateUserStore(users, q.user[1].id)
                /\ reqs' = [reqs EXCEPT ![r].pc = "respond", ![r].profile = NoProfile,
                                        ![r].user = UpdatedUser(users, q.user[1].id)]
    /\ UNCHANGED <<otps, now, services, client>>

\* Mutant: the handler runs storage.updateUser again instead of going on.
VerifyOtpUpdateUser_Retries(r) ==
    /\ reqs[r].pc = "updateUser"
    /\ users' = UpdateUserStore(users, reqs[r].user[1].id)
    /\ UNCHANGED <<reqs, otps, now, services, client>>
\* verify-otp, new user: storage.updateUser after the await of createUser.
VerifyOtpUpdateUser(r) ==
    /\ reqs[r].pc = "updateUser"
    /\ users' = UpdateUserStore(users, reqs[r].user[1].id)
    /\ reqs' = [reqs EXCEPT ![r].pc = "respond",
                            ![r].user = UpdatedUser(users, reqs[r].user[1].id)]
    /\ UNCHANGED <<otps, now, services, client>>

\* verify-otp: the response after the await of updateUser.
VerifyOtpRespond(r) ==
    /\ reqs[r].pc = "respond"
    /\ IF reqs[r].user = None
       THEN reqs' = [reqs EXCEPT ![r].pc = "done", ![r].user = None,
                        ![r].res = Some(ErrorResponse(500, ErrUpdateFailed))]
       ELSE reqs' = [reqs EXCEPT ![r].pc = "done", ![r].user = None,
                        ![r].res = Some(Response(200, NoError, Some(PublicUser(reqs[r].user[1])), NoCode))]
    /\ UNCHANGED <<otps, users, now, services, client>>

\* verify-otp stopped between markOtpAsUsed and createUser / updateUser:
\* the call it awaits (markOtpAsUsed, whose write is done, or
\* getUserByPhone) is rejected by the storage collaborator, the rest of the
\* try block is skipped and the catch answers 500.  The store is kept.
VerifyOtpStop(r) ==
    /\ reqs[r].pc \in {"getUser", "resolveUser"}
    /\ reqs' = [reqs EXCEPT ![r].pc = "done", ![r].profile = NoProfile,
                            ![r].user = None,
                            ![r].res = Some(ErrorResponse(500, ErrVerifyFailed))]
    /\ UNCHANGED <<otps, users, services, now, client>>

\* POST /api/services up to the await of storage.createService.
CreateServiceStart(r, body) ==
    /\ Free(r)
    /\ LET base == [IdleReq EXCEPT !.kind = "createService"]
       IN  IF ~ParsesAsInsertService(body)
           THEN /\ reqs' = [reqs EXCEPT ![r] = [base EXCEPT
                        !.pc = "done",
                        !.res = Some(ErrorResponse(400, ErrInvalidServiceData))]]
                /\ UNCHANGED services
           ELSE LET service == CreateServiceRecord(services, body, now)
                IN  /\ Len(services) < MaxServices
                    /\ services' = Append(services, service)
                    /\ reqs' = [reqs EXCEPT ![r] = [base EXCEPT
                            !.pc = "serviceRespond", !.service = Some(service)]]
    /\ UNCHANGED <<otps, users, now, client>>

\* POST /api/services after the await: res.json(service).
CreateServiceRespond(r) ==
    /\ reqs[r].pc = "serviceRespond"
    /\ reqs' = [reqs EXCEPT ![r].pc = "done", ![r].service = None,
                            ![r].res = Some(ServiceResponse(reqs[r].service[1]))]
    /\ UNCHANGED <<otps, users, services, now, client>>

\* GET /api/services up to the await of storage.getServices.
GetServicesStart(r) ==
    /\ Free(r)
    /\ reqs' = [reqs EXCEPT ![r] = [IdleReq EXCEPT
                    !.kind = "getServices", !.pc = "listRespond", !.list = services]]
    /\ UNCHANGED <<otps, users, services, now, client>>

\* GET /api/services after the await: res.json(services).
GetServicesRespond(r) ==
    /\ reqs[r].pc = "listRespond"
    /\ reqs' = [reqs EXCEPT ![r].pc = "done", ![r].list = <<>>,
                            ![r].res = Some(ListResponse(reqs[r].list))]
    /\ UNCHANGED <<otps, users, services, now, client>>

\* A call of storage.getServicesByUser(userId); the slot holds what the
\* promise resolves to.
GetServicesByUserCall(r, userId) ==
    /\ Free(r)
    /\ reqs' = [reqs EXCEPT ![r] = [IdleReq EXCEPT
                    !.kind = "servicesByUser", !.pc = "done", !.userId = userId,
                    !.list = GetServicesByUser(services, userId)]]
    /\ UNCHANGED <<otps, users, services, now, client>>

(***************************************************************************)
(* The PhoneAuth component.  A submit handler runs up to its await of      *)
(* apiRequest, where the request reaches the server, and resumes when the  *)
(* response is there; a submit button is disabled while loading is set or  *)
(* its form is incomplete, and the text fields and the back buttons stay   *)
(* usable while a request is under way.                                    *)
(***************************************************************************)
\* What the user types into the phone field, the code field (besides the
\* code shown to them) and the details form.
TypedPhones == {PhoneA, PhoneShort}
TypedCodes == {GenerateOtp(n) : n \in RandNums}
UserDataAsha == [name |-> "Asha", flat |-> "12", floor |-> "1", block |-> "A"]
TypedUserData == {UserDataAsha, [UserDataAsha EXCEPT !.block = ""]}

\* formatPhoneNumber: up to 10 digits are shown as (ddd) ddd-dddd.
FormatPhoneNumber(value) ==
    LET cleaned == CleanPhone(value)
        n == Len(cleaned)
    IN  IF n > 10 THEN value
        ELSE IF n <= 3 THEN cleaned
        ELSE <<"(">> \o SubSeq(cleaned, 1, 3) \o <<")", " ">>
                \o SubSeq(cleaned, 4, IF n < 6 THEN n ELSE 6)
                \o (IF n > 6 THEN <<"-">> \o SubSeq(cleaned, 7, n) ELSE <<>>)

\* String.prototype.includes, on texts given word by word.
Includes(text, part) ==
    \E k \in 0..(Len(text) - Len(part)) : SubSeq(text, k + 1, k + Len(part)) = part
RequiredForNewUsers == <<"required", "for", "new", "users">>

\* The message of the Error that apiRequest throws for a response that is
\* not ok: it carries the error text of the response body.
ApiErrorMessage(res) == res.error

\* Mutant: every failed verification asks for the details.
IsNewUserError_AnyError(message) == TRUE
\* error.message?.includes("required for new users")
IsNewUserError(message) == Includes(message, RequiredForNewUsers)

UserDataComplete(d) == d.name # "" /\ d.flat # "" /\ d.floor # "" /\ d.block # ""

\* onChange of the phone field.
ChangePhone(value) ==
    /\ client.step = "phone"
    /\ client' = [client EXCEPT !.phone = FormatPhoneNumber(value)]
    /\ UNCHANGED <<otps, users, services, now, reqs>>

\* handleOtpChange.
ChangeOtp(value) ==
    /\ client.step = "otp"
    /\ LET cleaned == CleanPhone(value)
       IN  client' = IF Len(cleaned) <= 6 THEN [client EXCEPT !.otp = cleaned] ELSE client
    /\ UNCHANGED <<otps, users, services, now, reqs>>

\* onChange of the fields of the details form.
ChangeUserData(d) ==
    /\ client.step = "details"
    /\ client' = [client EXCEPT !.userData = d]
    /\ UNCHANGED <<otps, users, services, now, reqs>>

\* The back button and "Resend Code" of the otp step.
BackToPhone ==
    /\ client.step = "otp"
    /\ client' = [client EXCEPT !.step = "phone"]
    /\ UNCHANGED <<otps, users, services, now, reqs>>

\* The back button of the details step.
BackToOtp ==
    /\ client.step = "details"
    /\ client' = [client EXCEPT !.step = "otp"]
    /\ UNCHANGED <<otps, users, services, now, reqs>>

\* handlePhoneSubmit up to the await of apiRequest.  The submit button is
\* disabled while loading and for fewer than ten digits; the handler tests
\* the digits again and then answers on the spot: setLoading(true), the
\* toast, return and the finally block run in one turn.
HandlePhoneSubmit(r, n) ==
    /\ client.step = "phone"
    /\ ~client.loading
    /\ client.awaiting = "none"
    /\ IF Len(CleanPhone(client.phone)) < 10
       THEN /\ client' = [client EXCEPT !.toast = "Invalid Phone Number",
                                         !.loading = FALSE]
            /\ UNCHANGED <<otps, users, services, now, reqs>>
       ELSE /\ client' = [client EXCEPT !.loading = TRUE, !.awaiting = "phone"]
            /\ SendOtpStart(r, CleanPhone(client.phone), n)

\* handlePhoneSubmit after the await.
HandlePhoneResume(r) ==
    /\ client.awaiting = "phone"
    /\ reqs[r].pc = "done"
    /\ LET res == reqs[r].res[1]
       IN  IF res.status = 200
           THEN client' = [client EXCEPT !.developmentOtp = res.developmentOtp,
                                         !.step = "otp", !.toast = "OTP Sent",
                                         !.loading = FALSE, !.awaiting = "none"]
           ELSE client' = [client EXCEPT !.toast = "Error",
                                         !.loading = FALSE, !.awaiting = "none"]
    /\ UNCHANGED <<otps, users, services, now, reqs>>

\* handleOtpSubmit up to the await of apiRequest.
HandleOtpSubmit(r) ==
    /\ client.step = "otp"
    /\ ~client.loading
    /\ Len(client.otp) = 6
    /\ client.awaiting = "none"
    /\ client' = [client EXCEPT !.loading = TRUE, !.awaiting = "otp"]
    /\ VerifyOtpStart(r, CleanPhone(client.phone), client.otp, NoProfile)

\* Mutant: loading is reset on success only, not in a finally block.
HandleOtpResume_NoFinally(r) ==
    /\ client.awaiting = "otp"
    /\ reqs[r].pc = "done"
    /\ LET res == reqs[r].res[1]
       IN  IF res.status = 200
           THEN IF res.user # None
                THEN client' = [client EXCEPT !.authUser = res.user,
                                              !.toast = "Welcome Back!",
                                              !.loading = FALSE, !.awaiting = "none"]
                ELSE client' = [client EXCEPT !.loading = FALSE, !.awaiting = "none"]
           ELSE IF IsNewUserError(ApiErrorMessage(res))
                THEN client' = [client EXCEPT !.step = "details", !.awaiting = "none"]
                ELSE client' = [client EXCEPT !.toast = "Verification Failed",
                                              !.awaiting = "none"]
    /\ UNCHANGED <<otps, users, services, now, reqs>>
\* handleOtpSubmit after the await.
HandleOtpResume(r) ==
    /\ client.awaiting = "otp"
    /\ reqs[r].pc = "done"
    /\ LET res == reqs[r].res[1]
       IN  IF res.status = 200
           THEN IF res.user # None
                THEN client' = [client EXCEPT !.authUser = res.user,
                                              !.toast = "Welcome Back!",
                                              !.loading = FALSE, !.awaiting = "none"]
                ELSE client' = [client EXCEPT !.loading = FALSE, !.awaiting = "none"]
           ELSE IF IsNewUserError(ApiErrorMessage(res))
                THEN client' = [client EXCEPT !.step = "details",
                                              !.loading = FALSE, !.awaiting = "none"]
                ELSE client' = [client EXCEPT !.toast = "Verification Failed",
                                              !.loading = FALSE, !.awaiting = "none"]
    /\ UNCHANGED <<otps, users, services, now, reqs>>

\* handleDetailsSubmit up to the await of apiRequest.
HandleDetailsSubmit(r, userRole) ==
    /\ client.step = "details"
    /\ ~client.loading
    /\ UserDataComplete(client.userData)
    /\ client.awaiting = "none"
    /\ client' = [client EXCEPT !.loading = TRUE, !.awaiting = "details"]
    /\ VerifyOtpStart(r, CleanPhone(client.phone), client.otp,
            [name |-> client.userData.name, flat |-> client.userData.flat,
             floor |-> client.userData.floor, block |-> client.userData.block,
             role |-> userRole])

\* handleDetailsSubmit after the await.
HandleDetailsResume(r) ==
    /\ client.awaiting = "details"
    /\ reqs[r].pc = "done"
    /\ LET res == reqs[r].res[1]
       IN  IF res.status = 200
           THEN client' = [client EXCEPT !.authUser = res.user,
                                         !.toast = "Registration Complete!",
                                         !.loading = FALSE, !.awaiting = "none"]
           ELSE client' = [client EXCEPT !.toast = "Registration Failed",
                                         !.loading = FALSE, !.awaiting = "none"]
    /\ UNCHANGED <<otps, users, services, now, reqs>>

\* The turns of a request after its first.
ServerTurn(r) ==
    \/ SendOtpRespond(r)
    \/ VerifyOtpCheck(r)
    \/ VerifyOtpGetUser(r)
    \/ VerifyOtpResolveUser(r)
    \/ VerifyOtpUpdateUser(r)
    \/ VerifyOtpRespond(r)

\* The requests of a caller other than the PhoneAuth component, and the
\* later turns of every request.
Request(r, phones, profiles) ==
    \/ \E phone \in phones, n \in RandNums :
            SendOtpStart(r, phone, n) /\ UNCHANGED client
    \/ SendOtpRespond(r)
    \/ \E phone \in phones, code \in RequestCodes, profile \in profiles :
            VerifyOtpStart(r, phone, code, profile) /\ UNCHANGED client
    \/ VerifyOtpCheck(r)
    \/ VerifyOtpGetUser(r)
    \/ VerifyOtpResolveUser(r)
    \/ VerifyOtpUpdateUser(r)
    \/ VerifyOtpRespond(r)

\* Handlers of several requests interleave at their awaits.  A handler's
\* turns take far less than TickMs, so the clock stands still here.
Next == \E r \in ReqIds : Request(r, ConcPhones, ConcProfiles)

Spec == Init /\ [][Next]_vars

\* Requests served one at a time while the clock advances.
NextClock ==
    \/ Tick
    \/ \E r \in SeqIds : Request(r, RawPhones, Profiles)

SpecClock == Init /\ [][NextClock]_vars

\* One caller with one phone, one request at a time, the clock read every
\* half OTP lifetime.
NextExpiry ==
    \/ HalfTick
    \/ \E r \in SeqIds : Request(r, {PhoneA}, {NoProfile, ProfileResident})

SpecExpiry == Init /\ [][NextExpiry]_vars

\* One caller with one phone and every shape of profile, one request at a
\* time.
NextProfiles == \E r \in SeqIds : Request(r, {PhoneA}, AllProfiles)

SpecProfiles == Init /\ [][NextProfiles]_vars

\* Interleaved handlers, any of which may stop after it has marked its OTP.
NextStop ==
    \E r \in ReqIds :
        \/ Request(r, ConcPhones, ConcProfiles)
        \/ VerifyOtpStop(r)

SpecStop == Init /\ [][NextStop]_vars

\* One caller's requests, one at a time, each of which may stop after it has
\* marked its OTP; a request that has started gets its later turns (the
\* event loop runs every continuation whose promise has settled, and the
\* promises of MemStorage settle at once).
NextLive ==
    \E r \in SeqIds :
        \/ Request(r, RawPhones, Profiles)
        \/ VerifyOtpStop(r)

SpecLive ==
    /\ Init
    /\ [][NextLive]_vars
    /\ \A r \in SeqIds : WF_vars(ServerTurn(r))

\* One PhoneAuth component and the server.  An expired code and a wrong
\* code get the same response, so the clock stands still here and a wrong
\* code is what the user may type.
NextClient ==
    \/ \E value \in TypedPhones : ChangePhone(value)
    \/ \E value \in TypedCodes \cup {client.developmentOtp} : ChangeOtp(value)
    \/ \E d \in TypedUserData : ChangeUserData(d)
    \/ BackToPhone
    \/ BackToOtp
    \/ \E r \in SeqIds :
            \/ \E n \in RandNums : HandlePhoneSubmit(r, n)
            \/ HandlePhoneResume(r)
            \/ HandleOtpSubmit(r)
            \/ HandleOtpResume(r)
            \/ \E userRole \in Roles : HandleDetailsSubmit(r, userRole)
            \/ HandleDetailsResume(r)
            \/ ServerTurn(r)

SpecClient == Init /\ [][NextClient]_vars

\* The same, where a request that has started gets its later turns and the
\* handler that awaits it is resumed once the request has answered.
SpecClientLive ==
    /\ Init
    /\ [][NextClient]_vars
    /\ \A r \in SeqIds :
            /\ WF_vars(ServerTurn(r))
            /\ WF_vars(HandlePhoneResume(r))
            /\ WF_vars(HandleOtpResume(r))
            /\ WF_vars(HandleDetailsResume(r))

\* The service listing, one call at a time, while the clock advances.
NextServices ==
    \/ Tick
    \/ \E r \in SeqIds :
            \/ \E body \in ServiceBodies : CreateServiceStart(r, body)
            \/ CreateServiceRespond(r)
            \/ GetServicesStart(r)
            \/ GetServicesRespond(r)
            \/ \E userId \in UserIds : GetServicesByUserCall(r, userId)

SpecServices == Init /\ [][NextServices]_vars

(***************************************************************************)
(* Properties.  Steps of a request are told apart by its pc before and     *)
(* after the step.                                                         *)
(***************************************************************************)
\* The step in which slot r starts a verify-otp call that gets to the lookup.
VerifyLookupStep(r) == Free(r) /\ reqs'[r].kind = "verify" /\ reqs'[r].pc = "checkOtp"
\* The step in which slot r tests the lookup result.
VerifyCheckStep(r) == reqs[r].pc = "checkOtp" /\ reqs'[r].pc # "checkOtp"
\* The steps in which slot r resolves the user, updates it and responds.
VerifyResolveStep(r) == reqs[r].pc = "resolveUser" /\ reqs'[r].pc # "resolveUser"
VerifyUpdateStep(r) == reqs[r].pc = "updateUser" /\ reqs'[r].pc # "updateUser"
VerifyRespondStep(r) == reqs[r].pc = "respond" /\ reqs'[r].pc # "respond"
\* Slot r holds a finished verify-otp call that got past the OTP check.
FinishedPastCheck(r) ==
    /\ reqs[r].pc = "done"
    /\ reqs[r].kind = "verify"
    /\ reqs[r].res[1].error \notin {ErrPhoneAndOtpRequired, ErrInvalidOtp}
FiveMinutes == 300000
AllPresent(p) == p.name # "" /\ p.flat # "" /\ p.floor # "" /\ p.block # "" /\ p.role # ""

\* C1: a verify-otp call gets past the OTP check exactly when, at the time
\* of its lookup, the store holds a record for the normalized phone with the
\* same code, unused, and with expiresAt strictly later than the clock;
\* otherwise it answers 400 "Invalid or expired OTP".
C1_AcceptedIffValidRecord ==
    [][\A r \in ReqIds :
        /\ VerifyLookupStep(r) =>
            ((reqs'[r].validOtp # None) <=>
                \E i \in 1..Len(otps) :
                    /\ otps[i].phone = CleanPhone(reqs'[r].phone)
                    /\ otps[i].otp = reqs'[r].otp
                    /\ otps[i].isUsed = FALSE
                    /\ otps[i].expiresAt > now)
        /\ VerifyCheckStep(r) =>
            IF reqs[r].validOtp = None
            THEN /\ reqs'[r].pc = "done"
                 /\ reqs'[r].res = Some(ErrorResponse(400, ErrInvalidOtp))
            ELSE reqs'[r].pc = "getUser"
    ]_vars

\* C1 witness: a lookup has found nothing although a record with the phone
\* and the code is unused, because the clock has reached its expiresAt.
C1_Witness ==
    \E r \in ReqIds, i \in 1..Len(otps) :
        /\ reqs[r].pc = "checkOtp"
        /\ reqs[r].validOtp = None
        /\ otps[i].phone = reqs[r].cleanPhone
        /\ otps[i].otp = reqs[r].otp
        /\ ~otps[i].isUsed
        /\ otps[i].expiresAt = now

\* C2 as stated: of two successive verify-otp calls with a pair that is
\* valid at the first, the first gets past the OTP check and marks the
\* matched record used, and the lookup of the second finds nothing (it
\* fails with InvalidOrExpiredOtp).  "Succeeds" is read here as getting past
\* the OTP check, the reading under which the claim says least.
C2_Original ==
    [][\A r1, r2 \in ReqIds :
        /\ (VerifyCheckStep(r1) /\ reqs[r1].validOtp # None) =>
                /\ reqs'[r1].pc = "getUser"
                /\ otps'[reqs[r1].validOtp[1].id].isUsed
        /\ (/\ FinishedPastCheck(r1)
            /\ VerifyLookupStep(r2)
            /\ reqs'[r2].cleanPhone = reqs[r1].cleanPhone
            /\ reqs'[r2].otp = reqs[r1].otp) => reqs'[r2].validOtp = None
    ]_vars

\* C2 amended: the first call gets past the OTP check and marks the matched
\* record used; it ends in an error only for a phone without a User whose
\* request lacks a profile field or fails the schema; and when exactly one
\* OTP record carries the pair, the lookup of the second call finds nothing.
C2_SecondCallFails ==
    [][\A r1, r2 \in ReqIds :
        /\ (VerifyCheckStep(r1) /\ reqs[r1].validOtp # None) =>
                /\ reqs'[r1].pc = "getUser"
                /\ otps'[reqs[r1].validOtp[1].id].isUsed
        /\ (reqs[r1].pc \in {"resolveUser", "respond"} /\ reqs'[r1].pc = "done") =>
                \/ reqs'[r1].res[1].status = 200
                \/ /\ reqs[r1].user = None
                   /\ ~AllPresent(reqs[r1].profile) \/ reqs[r1].profile.role \notin Roles
        /\ (/\ FinishedPastCheck(r1)
            /\ VerifyLookupStep(r2)
            /\ reqs'[r2].cleanPhone = reqs[r1].cleanPhone
            /\ reqs'[r2].otp = reqs[r1].otp
            /\ Cardinality({i \in 1..Len(otps) :
                    otps[i].phone = reqs[r1].cleanPhone /\ otps[i].otp = reqs[r1].otp}) = 1)
                => reqs'[r2].validOtp = None
    ]_vars

\* C2 witness: one call has succeeded with a pair that exactly one record
\* carries, and the lookup of a second call with the pair has found nothing.
C2_Witness ==
    \E r1, r2 \in ReqIds :
        /\ reqs[r1].pc = "done" /\ reqs[r1].kind = "verify"
        /\ reqs[r1].res[1].status = 200
        /\ reqs[r2].pc = "checkOtp" /\ reqs[r2].validOtp = None
        /\ reqs[r2].cleanPhone = reqs[r1].cleanPhone
        /\ reqs[r2].otp = reqs[r1].otp
        /\ Cardinality({i \in 1..Len(otps) :
                otps[i].phone = reqs[r1].cleanPhone /\ otps[i].otp = reqs[r1].otp}) = 1
        /\ \A i \in 1..Len(otps) : otps[i].isUsed

\* C3: a request that gets past the OTP check consumes a record that no
\* other request has consumed: the record it marks is unused until then.
C3_ConsumedAtMostOnce ==
    [][\A r \in ReqIds :
        (VerifyCheckStep(r) /\ reqs[r].validOtp # None) =>
            ~otps[reqs[r].validOtp[1].id].isUsed
    ]_vars

\* C4: the store holds at most one User per phone, also when every User
\* was created behind an OTP record of its own.
C4_OneUserPerPhone ==
    (Cardinality({i \in 1..Len(otps) : otps[i].isUsed}) >= Len(users)) =>
        \A i, j \in 1..Len(users) : users[i].phone = users[j].phone => i = j

\* C5: for a phone without a User and a valid OTP, a call without name ends
\* with 400 "... required for new users" and creates nothing; a call with
\* name, flat, floor, block and a role of the enum appends exactly one User
\* for the normalized phone and answers success with isVerified = true.
C5_NewUserRegistration ==
    [][\A r \in ReqIds :
        /\ (VerifyResolveStep(r) /\ reqs[r].user = None) =>
            /\ reqs[r].profile.name = "" =>
                /\ reqs'[r].pc = "done"
                /\ reqs'[r].res = Some(ErrorResponse(400, ErrNewUserFields))
                /\ users' = users
            /\ (AllPresent(reqs[r].profile)
                    /\ reqs[r].profile.role \in {"resident", "president"}) =>
                /\ reqs'[r].pc = "updateUser"
                /\ Len(users') = Len(users) + 1
                /\ SubSeq(users', 1, Len(users)) = users
                /\ users'[Len(users')].phone = reqs[r].cleanPhone
                /\ users'[Len(users')].name = reqs[r].profile.name
                /\ reqs'[r].user = Some(users'[Len(users')])
        /\ VerifyUpdateStep(r) =>
            /\ reqs'[r].pc = "respond"
            /\ Len(users') = Len(users)
            /\ reqs'[r].user # None
            /\ reqs'[r].user[1].id = reqs[r].user[1].id
        /\ VerifyRespondStep(r) =>
            /\ reqs'[r].pc = "done"
            /\ reqs'[r].res[1].status = 200
            /\ reqs'[r].res[1].user # None
            /\ reqs'[r].res[1].user[1].isVerified = TRUE
            /\ reqs'[r].res[1].user[1].phone = reqs[r].cleanPhone
            /\ users' = users
    ]_vars

\* C5 witness: one call has ended with the missing-fields error, another has
\* registered the phone's only User and got it back verified.
C5_Witness ==
    \E r1, r2 \in ReqIds :
        /\ reqs[r1].pc = "done"
        /\ reqs[r1].res = Some(ErrorResponse(400, ErrNewUserFields))
        /\ reqs[r2].pc = "done" /\ reqs[r2].kind = "verify"
        /\ reqs[r2].res[1].status = 200
        /\ reqs[r2].res[1].user[1].isVerified
        /\ Len(users) = 1
        /\ users[1].id = reqs[r2].res[1].user[1].id

\* C6: for a phone without a User and with exactly one issued OTP, after a
\* call with the valid pair and no profile fields has ended with the
\* missing-fields error, the follow-up call with the same pair and a full
\* profile gets past the OTP check (as it must, to succeed and create the
\* user).
C6_FollowUpAccepted ==
    [][\A r1, r2 \in ReqIds :
        (/\ reqs[r1].pc = "done"
         /\ reqs[r1].res = Some(ErrorResponse(400, ErrNewUserFields))
         /\ Len(otps) = 1
         /\ \A i \in 1..Len(users) : users[i].phone # reqs[r1].cleanPhone
         /\ VerifyLookupStep(r2)
         /\ reqs'[r2].cleanPhone = reqs[r1].cleanPhone
         /\ reqs'[r2].otp = reqs[r1].otp
         /\ AllPresent(reqs'[r2].profile)
         /\ reqs'[r2].profile.role \in {"resident", "president"})
            => reqs'[r2].validOtp # None
    ]_vars

\* C7: when a verify-otp call finds a User for the phone, the profile
\* fields of the request are not used: no record is added, every other
\* record is untouched, the found record changes in isVerified at most,
\* which becomes true, and the response carries that record's fields.
C7_ExistingUserUnchanged ==
    [][\A r \in ReqIds :
        /\ (VerifyResolveStep(r) /\ reqs[r].user # None) =>
            LET id == reqs[r].user[1].id
            IN  /\ reqs'[r].pc = "respond"
                /\ Len(users') = Len(users)
                /\ \A j \in 1..Len(users) : j # id => users'[j] = users[j]
                /\ users'[id].isVerified = TRUE
                /\ \A f \in {"id", "name", "phone", "flat", "floor", "block",
                             "role", "createdAt"} : users'[id][f] = users[id][f]
                /\ reqs'[r].user = Some(users'[id])
        /\ VerifyRespondStep(r) =>
            LET u == users[reqs[r].user[1].id]
                out == reqs'[r].res[1].user[1]
            IN  /\ reqs'[r].res[1].status = 200
                /\ users' = users
                /\ \A f \in {"id", "name", "phone", "flat", "floor", "block",
                             "role", "isVerified"} : out[f] = u[f]
    ]_vars

\* C7 witness: a call carrying a full profile with another name and role
\* has found the phone's User, who registered as president.
C7_Witness ==
    \E r \in ReqIds :
        /\ reqs[r].pc = "resolveUser"
        /\ reqs[r].user # None
        /\ reqs[r].user[1].role = "president"
        /\ AllPresent(reqs[r].profile)
        /\ reqs[r].profile.name # reqs[r].user[1].name
        /\ reqs[r].profile.role # reqs[r].user[1].role

\* C8: a record whose isUsed is true stays in the store with isUsed true,
\* and the valid-OTP lookup returns it for no phone, code and time.
C8_UsedStaysUsed ==
    /\ [][\A i \in 1..Len(otps) :
            otps[i].isUsed => (i <= Len(otps') /\ otps'[i].isUsed)]_vars
    /\ [](\A phone \in {CleanPhone(ph) : ph \in RawPhones}, code \in RequestCodes,
            t \in {now, 0} :
            LET found == GetValidOtp(otps, phone, code, t)
            IN  found # None => (~found[1].isUsed /\ ~otps[found[1].id].isUsed))

\* C8 witness: a record is used and not expired, and a lookup with its phone
\* and code has found nothing.
C8_Witness ==
    \E r \in ReqIds, i \in 1..Len(otps) :
        /\ otps[i].isUsed
        /\ otps[i].expiresAt > now
        /\ reqs[r].pc = "checkOtp"
        /\ reqs[r].validOtp = None
        /\ reqs[r].cleanPhone = otps[i].phone
        /\ reqs[r].otp = otps[i].otp

\* C9: the marking step of a verify-otp call changes at most one OTP
\* record, the one it looked up, and only its isUsed, from false to true;
\* no other step of the call changes an OTP record; so other records that
\* match the same phone and code stay as they are.
C9_OneRecordPerCall ==
    [][\A r \in ReqIds :
        /\ (VerifyCheckStep(r) /\ reqs[r].validOtp # None) =>
            LET id == reqs[r].validOtp[1].id
                changed == {i \in 1..Len(otps) : otps'[i] # otps[i]}
            IN  /\ Len(otps') = Len(otps)
                /\ changed \subseteq {id}
                /\ Cardinality({i \in 1..Len(otps) :
                        ~otps[i].isUsed /\ otps'[i].isUsed}) <= 1
                /\ \A i \in changed :
                        ~otps[i].isUsed /\ otps'[i] = [otps[i] EXCEPT !.isUsed = TRUE]
        /\ (reqs[r].kind = "verify" /\ reqs'[r] # reqs[r]
                /\ ~(VerifyCheckStep(r) /\ reqs[r].validOtp # None)
                /\ ~Free(r)) => otps' = otps
        /\ (Free(r) /\ reqs'[r].kind = "verify" /\ reqs'[r] # reqs[r]) => otps' = otps
    ]_vars

\* C9 witness: two records carry the same phone and code; a call has got
\* past the check and marked one, and the other is still valid.
C9_Witness ==
    \E r \in ReqIds, i, j \in 1..Len(otps) :
        /\ i # j
        /\ otps[i].phone = otps[j].phone /\ otps[i].otp = otps[j].otp
        /\ otps[i].isUsed
        /\ ~otps[j].isUsed /\ otps[j].expiresAt > now
        /\ reqs[r].pc = "getUser"
        /\ reqs[r].cleanPhone = otps[i].phone /\ reqs[r].otp = otps[i].otp

\* Number(s) of a string of decimal digits.
RECURSIVE DigitsValue(_)
DigitsValue(str) ==
    IF str = <<>> THEN 0
    ELSE (10 * DigitsValue(SubSeq(str, 1, Len(str) - 1)))
            + (CHOOSE d \in 0..9 : DigitChars[d + 1] = str[Len(str)])

\* C10: a send-otp call whose phone normalizes to 10 digits or more appends
\* exactly one OTP record: phone the digits of the request phone, code six
\* decimal digits that read as an integer in 100000..999999, expiresAt the
\* clock plus five minutes, isUsed false; it changes no other record.
C10_RequestOtpRecord ==
    [][\A r \in ReqIds :
        (/\ Free(r)
         /\ reqs'[r].kind = "send"
         /\ reqs'[r] # reqs[r]
         /\ Len(reqs'[r].cleanPhone) >= 10) =>
            LET rec == otps'[Len(otps')]
            IN  /\ reqs'[r].pc = "sendRespond"
                /\ Len(otps') = Len(otps) + 1
                /\ SubSeq(otps', 1, Len(otps)) = otps
                /\ users' = users
                /\ rec.phone = reqs'[r].cleanPhone
                /\ \A k \in 1..Len(rec.phone) : rec.phone[k] \in Digits
                /\ Len(rec.otp) = 6
                /\ \A k \in 1..6 : rec.otp[k] \in Digits
                /\ DigitsValue(rec.otp) >= 100000 /\ DigitsValue(rec.otp) <= 999999
                /\ rec.otp = reqs'[r].otp
                /\ rec.expiresAt = now + FiveMinutes
                /\ rec.isUsed = FALSE
    ]_vars

\* C10 witness: a send-otp call issued after the clock had advanced has
\* stored a record beside an earlier one.
C10_Witness ==
    \E r \in ReqIds :
        /\ reqs[r].pc = "sendRespond"
        /\ Len(otps) = 2
        /\ otps[2].createdAt > 0
        /\ otps[2].expiresAt = now + FiveMinutes
        /\ otps[2].otp = reqs[r].otp
        /\ otps[2].otp # otps[1].otp

\* The step in which slot r starts a call of the given kind.
StartStep(r, kind) == Free(r) /\ reqs'[r].kind = kind /\ reqs'[r] # reqs[r]

\* C11: a send-otp call whose phone is missing or normalizes to fewer than
\* 10 digits ends at once with status 400 and one of the two phone errors;
\* it appends no OTP record and leaves OTP records, Users and Services as
\* they were.
C11_InvalidPhoneRejected ==
    [][\A r \in ReqIds :
        (StartStep(r, "send") /\ Len(reqs'[r].cleanPhone) < 10) =>
            /\ reqs'[r].pc = "done"
            /\ reqs'[r].res # None
            /\ reqs'[r].res[1].status = 400
            /\ reqs'[r].res[1].error \in {ErrPhoneRequired, ErrPhoneFormat}
            /\ reqs'[r].cleanPhone # <<>> => reqs'[r].res[1].error = ErrPhoneFormat
            /\ reqs'[r].res[1].developmentOtp = NoCode
            /\ otps' = otps
            /\ users' = users
            /\ services' = services
    ]_vars

\* C11 witness: a send-otp call for a phone of 7 digits has ended with the
\* format error while the store holds the one record of an earlier call.
C11_Witness ==
    \E r \in ReqIds :
        /\ reqs[r].pc = "done" /\ reqs[r].kind = "send"
        /\ reqs[r].res = Some(ErrorResponse(400, ErrPhoneFormat))
        /\ Len(reqs[r].cleanPhone) = 7
        /\ Len(otps) = 1

\* C12: a verify-otp call either reaches the OTP lookup, and then its phone
\* and its code are both present, or it ends at once with 400 "Phone number
\* and OTP are required" without having looked anything up; a call with
\* phone or code missing therefore ends that way.  The step changes no OTP
\* record and no User.
C12_MissingPhoneOrCode ==
    [][\A r \in ReqIds :
        StartStep(r, "verify") =>
            /\ \/ /\ reqs'[r].pc = "checkOtp"
                  /\ reqs'[r].phone # NoPhone
                  /\ reqs'[r].otp # NoCode
               \/ /\ reqs'[r].pc = "done"
                  /\ reqs'[r].res = Some(ErrorResponse(400, ErrPhoneAndOtpRequired))
                  /\ reqs'[r].validOtp = None
                  /\ reqs'[r].user = None
            /\ otps' = otps
            /\ users' = users
            /\ services' = services
    ]_vars

\* C12 witness: a verify-otp call has ended with the missing-input error
\* while an unused, unexpired record is in the store and no User exists.
C12_Witness ==
    \E r \in ReqIds :
        /\ reqs[r].pc = "done" /\ reqs[r].kind = "verify"
        /\ reqs[r].res = Some(ErrorResponse(400, ErrPhoneAndOtpRequired))
        /\ Len(otps) >= 1
        /\ ~otps[1].isUsed /\ otps[1].expiresAt > now
        /\ users = <<>>

\* The records issued for a phone, and whether their codes differ pairwise.
RecordsOf(phone) == {i \in 1..Len(otps) : otps[i].phone = phone}
DistinctCodes(phone) ==
    \A i, j \in RecordsOf(phone) : otps[i].otp = otps[j].otp => i = j

\* C13: issuing an OTP leaves every earlier record as it was; and for a
\* phone whose records carry distinct codes, a verify-otp call with the code
\* of an unexpired record is accepted exactly when that record has not been
\* consumed before (so each code is accepted once, whatever was issued or
\* consumed in between, and never again), and consuming it changes no other
\* record: the others stay valid.
C13_EarlierOtpsStayValid ==
    [][\A r \in ReqIds :
        /\ StartStep(r, "send") =>
            /\ \A i \in 1..Len(otps) : i <= Len(otps') /\ otps'[i] = otps[i]
            /\ \A code \in RequestCodes :
                    GetValidOtp(otps, reqs'[r].cleanPhone, code, now) # None
                        => GetValidOtp(otps', reqs'[r].cleanPhone, code, now) # None
        /\ VerifyLookupStep(r) =>
            \A i \in RecordsOf(reqs'[r].cleanPhone) :
                (/\ DistinctCodes(reqs'[r].cleanPhone)
                 /\ otps[i].otp = reqs'[r].otp
                 /\ otps[i].expiresAt > now) =>
                    /\ (reqs'[r].validOtp # None) <=> ~otps[i].isUsed
                    /\ reqs'[r].validOtp # None => reqs'[r].validOtp[1].id = i
        /\ (VerifyCheckStep(r) /\ reqs[r].validOtp # None) =>
            LET id == reqs[r].validOtp[1].id
            IN  /\ otps'[id].isUsed
                /\ \A j \in 1..Len(otps) : j # id => otps'[j] = otps[j]
                /\ \A j \in RecordsOf(reqs[r].cleanPhone), t \in {now} :
                        (j # id /\ IsValidOtp(otps[j], otps[j].phone, otps[j].otp, t))
                            => GetValidOtp(otps', otps[j].phone, otps[j].otp, t) # None
    ]_vars

\* C13 witness: two OTPs with distinct codes were issued for one phone and
\* neither has expired; the later one was consumed, and a call has now got
\* past the check with the earlier one.
C13_Witness ==
    \E r \in ReqIds :
        /\ Len(otps) = 2
        /\ otps[1].phone = otps[2].phone
        /\ otps[1].otp # otps[2].otp
        /\ otps[1].expiresAt > now /\ otps[2].expiresAt > now
        /\ otps[2].isUsed
        /\ ~otps[1].isUsed
        /\ reqs[r].pc = "checkOtp"
        /\ reqs[r].validOtp # None
        /\ reqs[r].validOtp[1].id = 1

\* The digits of a string, in their order.
RECURSIVE OnlyDigits(_)
OnlyDigits(str) ==
    IF str = <<>> THEN <<>>
    ELSE IF Head(str) \in {"0", "1", "2", "3", "4", "5", "6", "7", "8", "9"}
         THEN <<Head(str)>> \o OnlyDigits(Tail(str))
         ELSE OnlyDigits(Tail(str))
RawPhoneDigits == [q \in RawPhones |-> OnlyDigits(q)]
IsDigitString(str) ==
    \A k \in 1..Len(str) : str[k] \in {"0", "1", "2", "3", "4", "5", "6", "7", "8", "9"}

\* C14: every phone stored in an OTP record or a User is a string of digits;
\* send-otp stores the digits of the phone it was given, so that the new
\* record matches every formatting with those digits; verify-otp accepts a
\* request whenever an unused, unexpired record with the code holds the
\* digits of the request's phone, however the phone is formatted; and a new
\* User gets the digits of the request's phone.
C14_DigitOnlyMatching ==
    /\ \A q \in RawPhones : CleanPhone(q) = RawPhoneDigits[q]
    /\ [](/\ \A i \in 1..Len(otps) : IsDigitString(otps[i].phone)
          /\ \A i \in 1..Len(users) : IsDigitString(users[i].phone))
    /\ [][\A r \in ReqIds :
            /\ (StartStep(r, "send") /\ reqs'[r].pc = "sendRespond") =>
                LET rec == otps'[Len(otps')]
                IN  /\ rec.phone = reqs'[r].cleanPhone
                    /\ \A q \in RawPhones :
                            RawPhoneDigits[q] = rec.phone =>
                                GetValidOtp(otps', CleanPhone(q), rec.otp, now) # None
            /\ VerifyLookupStep(r) =>
                LET digits == RawPhoneDigits[reqs'[r].phone]
                IN  /\ reqs'[r].cleanPhone = digits
                    /\ \A i \in 1..Len(otps) :
                            (/\ otps[i].phone = digits
                             /\ otps[i].otp = reqs'[r].otp
                             /\ ~otps[i].isUsed
                             /\ otps[i].expiresAt > now) => reqs'[r].validOtp # None
            /\ (VerifyResolveStep(r) /\ Len(users') > Len(users)) =>
                users'[Len(users')].phone = reqs[r].cleanPhone
       ]_vars

\* C14 witness: a verify-otp call whose phone is written with dashes has
\* found a record, whose phone is the ten digits alone.
C14_Witness ==
    \E r \in ReqIds :
        /\ reqs[r].pc = "checkOtp"
        /\ reqs[r].phone = PhoneAFmt
        /\ reqs[r].validOtp # None
        /\ reqs[r].validOtp[1].phone = PhoneA
        /\ reqs[r].validOtp[1].phone # reqs[r].phone

\* C15: a call of getServicesByUser(userId) returns the stored services
\* whose offeredByUserId equals userId, each once and no other, nothing for
\* an id that no service references, and it changes no stored record.
C15_ServicesByUser ==
    [][\A r \in ReqIds :
        StartStep(r, "servicesByUser") =>
            LET out == reqs'[r].list
                userId == reqs'[r].userId
                owned == {i \in 1..Len(services) : services[i].offeredByUserId = userId}
            IN  /\ {out[k] : k \in 1..Len(out)} = {services[i] : i \in owned}
                /\ Len(out) = Cardinality(owned)
                /\ owned = {} => out = <<>>
                /\ services' = services
                /\ users' = users
                /\ otps' = otps
    ]_vars

\* C15 witness: the store holds a service of u2 and then one of u1, and a
\* call for u1 has returned the second alone.
C15_Witness ==
    \E r \in ReqIds :
        /\ reqs[r].pc = "done" /\ reqs[r].kind = "servicesByUser"
        /\ reqs[r].userId = "u1"
        /\ Len(services) = 2
        /\ services[1].offeredByUserId = "u2"
        /\ reqs[r].list = <<services[2]>>

\* C16: a POST /api/services call either ends at once with status 400 and
\* stores nothing, or stores exactly one new Service with an id no other
\* service has and the time of the call as createdAt; and what it stores
\* has title, description, price, category and offeredByUserId all
\* non-empty (a body with one of them missing or empty is rejected).
C16_CreateServiceValidation ==
    [][\A r \in ReqIds :
        StartStep(r, "createService") =>
            IF reqs'[r].pc = "done"
            THEN /\ reqs'[r].res[1].status = 400
                 /\ services' = services
            ELSE LET service == services'[Len(services')]
                 IN  /\ Len(services') = Len(services) + 1
                     /\ SubSeq(services', 1, Len(services)) = services
                     /\ \A i \in 1..Len(services) : services[i].id # service.id
                     /\ service.createdAt = now
                     /\ \A f \in ServiceFields : service[f] # ""
    ]_vars

PublicFields == {"id", "name", "phone", "flat", "floor", "block", "role", "isVerified"}
OtpFields == {"otp", "expiresAt", "isUsed", "developmentOtp"}

\* C17: the success response of a verify-otp call carries a user with
\* exactly the fields id, name, phone, flat, floor, block, role and
\* isVerified, each with the value of the stored User after the update
\* (isVerified true), phone being the digits of the request's phone; the
\* response holds no OTP code and the user no field of an OTP record.
C17_PublicProjection ==
    [][\A r \in ReqIds :
        (VerifyRespondStep(r) /\ reqs'[r].res[1].status = 200) =>
            LET res == reqs'[r].res[1]
                out == res.user[1]
            IN  /\ res.user # None
                /\ DOMAIN out = PublicFields
                /\ out.id \in 1..Len(users')
                /\ \A f \in PublicFields : out[f] = users'[out.id][f]
                /\ out.isVerified = TRUE
                /\ out.phone = reqs[r].cleanPhone
                /\ IsDigitString(out.phone)
                /\ res.developmentOtp = NoCode
                /\ DOMAIN out \cap OtpFields = {}
                /\ out.phone # reqs[r].otp
    ]_vars

\* C17 witness: a verify-otp call has answered success with the User stored
\* for its phone, which is verified.
C17_Witness ==
    \E r \in ReqIds :
        /\ reqs[r].pc = "done" /\ reqs[r].kind = "verify"
        /\ reqs[r].res[1].status = 200
        /\ reqs[r].res[1].user # None
        /\ reqs[r].res[1].user[1].phone = PhoneA
        /\ users[reqs[r].res[1].user[1].id].isVerified
        /\ users[reqs[r].res[1].user[1].id].phone = reqs[r].cleanPhone
        /\ "createdAt" \in DOMAIN users[reqs[r].res[1].user[1].id]

\* The step in which the handler awaiting its response resumes.
ResumeStep(handler) == client.awaiting = handler /\ client'.awaiting = "none"

\* C18: verify-otp answers an invalid or expired OTP and missing
\* registration fields with two different error texts, which the client's
\* test tells apart; the step of the client becomes "details" only when
\* handleOtpSubmit resumes with the missing-fields response, and when it
\* resumes with the invalid-or-expired response the step stays as it is.
C18_DetailsOnlyOnMissingFields ==
    /\ [](/\ ErrInvalidOtp # ErrNewUserFields
          /\ IsNewUserError(ApiErrorMessage(ErrorResponse(400, ErrNewUserFields)))
          /\ ~IsNewUserError(ApiErrorMessage(ErrorResponse(400, ErrInvalidOtp))))
    /\ [][\A r \in SeqIds :
            /\ (VerifyCheckStep(r) /\ reqs[r].validOtp = None) =>
                    reqs'[r].res = Some(ErrorResponse(400, ErrInvalidOtp))
            /\ (VerifyResolveStep(r) /\ reqs[r].user = None
                    /\ ~AllPresent(reqs[r].profile)) =>
                    reqs'[r].res = Some(ErrorResponse(400, ErrNewUserFields))
            /\ (client.step # "details" /\ client'.step = "details") =>
                    /\ ResumeStep("otp")
                    /\ reqs[r].kind = "verify"
                    /\ reqs[r].res = Some(ErrorResponse(400, ErrNewUserFields))
            /\ (ResumeStep("otp") /\ reqs[r].res = Some(ErrorResponse(400, ErrNewUserFields)))
                    => client'.step = "details"
            /\ (ResumeStep("otp") /\ reqs[r].res = Some(ErrorResponse(400, ErrInvalidOtp)))
                    => /\ client'.step = client.step
                       /\ client'.toast = "Verification Failed"
       ]_vars

\* C18 witness: after a verification that failed with the toast, the client
\* has moved from the otp step to the details step on the missing-fields
\* response.
C18_Witness ==
    \E r \in SeqIds :
        /\ client.step = "details"
        /\ client.awaiting = "none"
        /\ client.toast = "Verification Failed"
        /\ reqs[r].res = Some(ErrorResponse(400, ErrNewUserFields))

\* The step in which slot r stops, and a slot holding a stopped request.
VerifyStopStep(r) ==
    /\ reqs[r].pc \in {"getUser", "resolveUser"}
    /\ reqs'[r].pc = "done"
    /\ reqs'[r].res = Some(ErrorResponse(500, ErrVerifyFailed))
Stopped(r) ==
    /\ reqs[r].pc = "done"
    /\ reqs[r].kind = "verify"
    /\ reqs[r].res = Some(ErrorResponse(500, ErrVerifyFailed))
\* The records that carry the phone and code of the request in slot r.
RecordsOfRequest(r) ==
    {i \in 1..Len(otps) : otps[i].phone = reqs[r].cleanPhone /\ otps[i].otp = reqs[r].otp}

\* C19 as stated: a verify-otp request that stops after marking its OTP
\* leaves a used record for its phone and code and changes no User; used
\* records stay used; and the lookup of every later verify-otp call with the
\* same phone and code finds nothing (the call fails with
\* InvalidOrExpiredOtp).
C19_Original ==
    [][\A r1, r2 \in ReqIds :
        /\ VerifyStopStep(r1) =>
            /\ otps' = otps
            /\ users' = users
            /\ \E i \in RecordsOfRequest(r1) : otps[i].isUsed
        /\ \A i \in 1..Len(otps) : otps[i].isUsed => otps'[i].isUsed
        /\ (/\ Stopped(r1)
            /\ VerifyLookupStep(r2)
            /\ reqs'[r2].cleanPhone = reqs[r1].cleanPhone
            /\ reqs'[r2].otp = reqs[r1].otp) => reqs'[r2].validOtp = None
        /\ (VerifyCheckStep(r2) /\ reqs[r2].validOtp = None) =>
            reqs'[r2].res = Some(ErrorResponse(400, ErrInvalidOtp))
    ]_vars

\* C19 amended: as stated, for the later calls made while exactly one OTP
\* record carries the phone and code.
C19_StoppedRequestKeepsOtpUsed ==
    [][\A r1, r2 \in ReqIds :
        /\ VerifyStopStep(r1) =>
            /\ otps' = otps
            /\ users' = users
            /\ \E i \in RecordsOfRequest(r1) : otps[i].isUsed
        /\ \A i \in 1..Len(otps) : otps[i].isUsed => otps'[i].isUsed
        /\ (/\ Stopped(r1)
            /\ VerifyLookupStep(r2)
            /\ reqs'[r2].cleanPhone = reqs[r1].cleanPhone
            /\ reqs'[r2].otp = reqs[r1].otp
            /\ Cardinality(RecordsOfRequest(r1)) = 1) => reqs'[r2].validOtp = None
        /\ (VerifyCheckStep(r2) /\ reqs[r2].validOtp = None) =>
            reqs'[r2].res = Some(ErrorResponse(400, ErrInvalidOtp))
    ]_vars

\* C19 witness: a request has stopped after marking the only record of its
\* phone and code; no User exists, and a later call with the same phone and
\* code and a full profile has ended with the invalid-or-expired error.
C19_Witness ==
    \E r1, r2 \in ReqIds :
        /\ Stopped(r1)
        /\ Cardinality(RecordsOfRequest(r1)) = 1
        /\ \A i \in RecordsOfRequest(r1) : otps[i].isUsed /\ otps[i].expiresAt > now
        /\ users = <<>>
        /\ reqs[r2].pc = "done" /\ reqs[r2].kind = "verify"
        /\ reqs[r2].cleanPhone = reqs[r1].cleanPhone
        /\ reqs[r2].otp = reqs[r1].otp
        /\ reqs[r2].res = Some(ErrorResponse(400, ErrInvalidOtp))

\* C20: verify-otp marks the matched record in the turn after its lookup,
\* when it has not yet asked for the User; the User lookup and what follows
\* find the record used.  A call for a phone without a User that lacks a
\* profile field ends with 400 "... required for new users", and one whose
\* role is not of the enum with 400 "Invalid user data"; either leaves the
\* OTP records as they are, the record of the call used, and adds no User.
C20_NoRollback ==
    [][\A r \in ReqIds :
        /\ (VerifyCheckStep(r) /\ reqs[r].validOtp # None) =>
            /\ ~otps[reqs[r].validOtp[1].id].isUsed => otps' # otps
            /\ otps'[reqs[r].validOtp[1].id].isUsed
            /\ reqs[r].user = None /\ reqs'[r].user = None
            /\ reqs'[r].pc = "getUser"
            /\ users' = users
        /\ (reqs[r].pc \in {"getUser", "resolveUser"} /\ reqs'[r] # reqs[r]) =>
            /\ \E i \in RecordsOfRequest(r) : otps[i].isUsed /\ otps'[i].isUsed
            /\ otps' = otps
        /\ (VerifyResolveStep(r) /\ reqs[r].user = None /\ ~AllPresent(reqs[r].profile)) =>
            /\ reqs'[r].pc = "done"
            /\ reqs'[r].res = Some(ErrorResponse(400, ErrNewUserFields))
            /\ users' = users
        /\ (VerifyResolveStep(r) /\ reqs[r].user = None /\ AllPresent(reqs[r].profile)
                /\ reqs[r].profile.role \notin {"resident", "president"}) =>
            /\ reqs'[r].pc = "done"
            /\ reqs'[r].res = Some(ErrorResponse(400, ErrInvalidUserData))
            /\ users' = users
    ]_vars

\* C20 witness: a call with a role outside the enum has ended with the
\* schema error; its OTP record is used and not expired, and no User exists.
C20_Witness ==
    \E r \in ReqIds :
        /\ reqs[r].pc = "done" /\ reqs[r].kind = "verify"
        /\ reqs[r].res = Some(ErrorResponse(400, ErrInvalidUserData))
        /\ RecordsOfRequest(r) # {}
        /\ \A i \in RecordsOfRequest(r) : otps[i].isUsed /\ otps[i].expiresAt > now
        /\ users = <<>>

\* C21: expiry is strict and permanent.  The clock never goes back and the
\* expiresAt of a record never changes, so a record that has expired stays
\* expired.  A lookup made while an unused record with the pair has
\* expiresAt strictly later than the clock is accepted; a lookup never
\* accepts a record whose expiresAt is the clock's reading or earlier; and
\* when every record with the pair has expired the call answers 400
\* "Invalid or expired OTP".
C21_StrictPermanentExpiry ==
    [][/\ now' >= now
       /\ \A i \in 1..Len(otps) :
            /\ otps'[i].expiresAt = otps[i].expiresAt
            /\ otps[i].expiresAt <= now => otps'[i].expiresAt <= now'
       /\ \A r \in ReqIds :
            /\ VerifyLookupStep(r) =>
                LET matching == {i \in 1..Len(otps) :
                                    /\ otps[i].phone = reqs'[r].cleanPhone
                                    /\ otps[i].otp = reqs'[r].otp
                                    /\ ~otps[i].isUsed}
                IN  /\ (\E i \in matching : now < otps[i].expiresAt)
                            => reqs'[r].validOtp # None
                    /\ reqs'[r].validOtp # None
                            => /\ reqs'[r].validOtp[1].id \in matching
                               /\ now < reqs'[r].validOtp[1].expiresAt
                    /\ (\A i \in matching : now >= otps[i].expiresAt)
                            => reqs'[r].validOtp = None
            /\ (VerifyCheckStep(r) /\ reqs[r].validOtp = None) =>
                reqs'[r].res = Some(ErrorResponse(400, ErrInvalidOtp))
    ]_vars

\* C21 witness: a lookup has found nothing for the pair of an unused record
\* whose expiresAt lies half a lifetime in the past, while another unused
\* record, issued later, is still half a lifetime short of its expiresAt.
C21_Witness ==
    \E r \in ReqIds, i, j \in 1..Len(otps) :
        /\ reqs[r].pc = "checkOtp"
        /\ reqs[r].validOtp = None
        /\ otps[i].phone = reqs[r].cleanPhone
        /\ otps[i].otp = reqs[r].otp
        /\ ~otps[i].isUsed
        /\ otps[i].expiresAt + (OtpTtlMs \div 2) = now
        /\ ~otps[j].isUsed
        /\ otps[j].expiresAt - (OtpTtlMs \div 2) = now

\* C22: a User is stored with isVerified false; once a verify-otp call for
\* a phone has answered with success, every User with that phone has
\* isVerified true; isVerified never goes from true back to false; and a
\* call that resolves to a User already verified leaves the users store as
\* it was.
C22_VerifiedLifecycle ==
    [][/\ \A i \in 1..Len(users') : i > Len(users) => users'[i].isVerified = FALSE
       /\ \A i \in 1..Len(users) : users[i].isVerified => users'[i].isVerified
       /\ \A r \in ReqIds :
            /\ (VerifyRespondStep(r) /\ reqs'[r].res[1].status = 200) =>
                \A i \in 1..Len(users') :
                    users'[i].phone = reqs[r].cleanPhone => users'[i].isVerified
            /\ ((VerifyResolveStep(r) \/ VerifyUpdateStep(r))
                    /\ reqs[r].user # None
                    /\ users[reqs[r].user[1].id].isVerified) => users' = users
    ]_vars

\* C23: a verify-otp call for a phone without a User whose role is neither
\* resident nor president, or whose name, flat, floor or block is the empty
\* string, ends with a 400 answer and leaves the users store as it was;
\* and every stored User has a role of the enum and a non-empty name, flat,
\* floor and block.
C23_StoredUsersWellFormed ==
    /\ [](\A i \in 1..Len(users) :
            /\ users[i].role \in {"resident", "president"}
            /\ users[i].name # "" /\ users[i].flat # ""
            /\ users[i].floor # "" /\ users[i].block # "")
    /\ [][\A r \in ReqIds :
            (/\ VerifyResolveStep(r)
             /\ reqs[r].user = None
             /\ \/ reqs[r].profile.role \notin {"resident", "president"}
                \/ \E f \in {"name", "flat", "floor", "block"} :
                        reqs[r].profile[f] = "") =>
                /\ reqs'[r].pc = "done"
                /\ reqs'[r].res[1].status = 400
                /\ reqs'[r].res[1].error \in {ErrNewUserFields, ErrInvalidUserData}
                /\ users' = users
       ]_vars

\* C23 witness: a call whose profile is complete but for an empty flat has
\* passed the OTP check and found no User for its phone.
C23_Witness ==
    \E r \in ReqIds :
        /\ reqs[r].pc = "resolveUser"
        /\ reqs[r].user = None
        /\ reqs[r].profile.flat = ""
        /\ reqs[r].profile.name # "" /\ reqs[r].profile.floor # ""
        /\ reqs[r].profile.block # ""
        /\ reqs[r].profile.role \in {"resident", "president"}

\* C24: OTP records are never deleted or rewritten.  In every step the
\* records of the store stay in place with their id, phone, code, expiresAt
\* and createdAt, the set of ids only grows, and the only change to a
\* record is isUsed going from false to true.
C24_OtpRecordsKept ==
    [][/\ Len(otps') >= Len(otps)
       /\ {otps[i].id : i \in 1..Len(otps)} \subseteq {otps'[i].id : i \in 1..Len(otps')}
       /\ \A i \in 1..Len(otps) :
            /\ \A f \in {"id", "phone", "otp", "expiresAt", "createdAt"} :
                    otps'[i][f] = otps[i][f]
            /\ otps'[i].isUsed # otps[i].isUsed =>
                    (~otps[i].isUsed /\ otps'[i].isUsed)
    ]_vars

\* C24 witness: the first record issued has been used and a second record,
\* issued after it, is in the store unused.
C24_Witness ==
    /\ Len(otps) >= 2
    /\ otps[1].isUsed
    /\ ~otps[2].isUsed
    /\ \E r \in ReqIds : reqs[r].pc = "done" /\ reqs[r].kind = "verify"

\* C25: the code send-otp returns is the code of the record it stored, and
\* a verify-otp call that follows it with the same phone and the returned
\* code, before the record's expiresAt, passes the OTP check.  Requests are
\* made one at a time, so the record of the last send-otp call is the last
\* one of the store.
C25_ReturnedCodeVerifies ==
    [][\A r \in ReqIds :
        /\ (StartStep(r, "send") /\ reqs'[r].pc = "sendRespond") =>
            /\ Len(otps') = Len(otps) + 1
            /\ otps'[Len(otps')].phone = reqs'[r].cleanPhone
            /\ otps'[Len(otps')].otp = reqs'[r].otp
        /\ (reqs[r].pc = "sendRespond" /\ reqs'[r].pc = "done") =>
            /\ reqs'[r].res[1].status = 200
            /\ reqs'[r].res[1].developmentOtp = otps[Len(otps)].otp
            /\ reqs'[r].cleanPhone = otps[Len(otps)].phone
        /\ (/\ reqs[r].pc = "done" /\ reqs[r].kind = "send"
            /\ reqs[r].res[1].status = 200
            /\ VerifyLookupStep(r)
            /\ reqs'[r].cleanPhone = reqs[r].cleanPhone
            /\ reqs'[r].otp = reqs[r].res[1].developmentOtp
            /\ now < otps[Len(otps)].expiresAt) =>
                /\ reqs'[r].validOtp # None
                /\ reqs'[r].validOtp[1].otp = reqs[r].res[1].developmentOtp
    ]_vars

\* C25 witness: half a lifetime after the last record was issued, a lookup
\* with its phone and code has found that record.
C25_Witness ==
    \E r \in ReqIds :
        /\ reqs[r].pc = "checkOtp"
        /\ reqs[r].validOtp # None
        /\ reqs[r].validOtp[1].id = Len(otps)
        /\ reqs[r].validOtp[1].createdAt + (OtpTtlMs \div 2) = now

\* The place of a handler's turn in the order of its steps.
PcRank(pc) ==
    CASE pc \in {"idle", "done"} -> 0
      [] pc \in {"sendRespond", "checkOtp"} -> 1
      [] pc = "getUser" -> 2
      [] pc = "resolveUser" -> 3
      [] pc = "updateUser" -> 4
      [] pc = "respond" -> 5
\* The answers of send-otp and verify-otp: success, InvalidInput,
\* InvalidOrExpiredOtp, MissingRegistrationFields, ValidationError and the
\* internal failures.
ResponseKinds ==
    {<<200, NoError>>,
     <<400, ErrPhoneRequired>>, <<400, ErrPhoneFormat>>,
     <<400, ErrPhoneAndOtpRequired>>,
     <<400, ErrInvalidOtp>>,
     <<400, ErrNewUserFields>>,
     <<400, ErrInvalidUserData>>,
     <<500, ErrUpdateFailed>>, <<500, ErrVerifyFailed>>}

\* C26: every send-otp and verify-otp request ends with exactly one
\* response.  A request holds a response exactly when it has ended, and the
\* response is success or one of the error kinds; every turn of a request
\* takes it one step further (no step is run twice) and the store changes
\* only in such a turn; an ended request is changed no more (its slot is
\* only taken by the next request); and every request that has started
\* ends.
C26_OneResponsePerRequest ==
    /\ [](\A r \in ReqIds :
            /\ (reqs[r].res # None) <=> (reqs[r].pc = "done")
            /\ reqs[r].pc = "done" =>
                <<reqs[r].res[1].status, reqs[r].res[1].error>> \in ResponseKinds)
    /\ [][/\ \A r \in ReqIds :
                reqs'[r] # reqs[r] =>
                    IF Free(r)
                    THEN reqs'[r].kind \in {"send", "verify"}
                    ELSE /\ reqs'[r].kind = reqs[r].kind
                         /\ \/ reqs'[r].pc = "done"
                            \/ PcRank(reqs'[r].pc) > PcRank(reqs[r].pc)
          /\ (otps' # otps \/ users' # users) => reqs' # reqs
       ]_vars
    /\ \A r \in SeqIds :
            (reqs[r].pc \notin {"idle", "done"}) ~> (reqs[r].pc = "done")

\* C26 witness: a verify-otp request that stopped after marking its OTP has
\* ended with the internal failure answer, and the User of an earlier
\* request that ended with success is stored.
C26_Witness ==
    \E r \in ReqIds :
        /\ reqs[r].pc = "done" /\ reqs[r].kind = "verify"
        /\ reqs[r].res = Some(ErrorResponse(500, ErrVerifyFailed))
        /\ \A i \in 1..Len(otps) : otps[i].isUsed
        /\ Len(users) = 1

\* C27: users are created only behind a consumed OTP.  In every reachable
\* state each stored User has an OTP record with its phone and isUsed true.
C27_UserBehindUsedOtp ==
    \A i \in 1..Len(users) :
        \E j \in 1..Len(otps) :
            /\ otps[j].phone = users[i].phone
            /\ otps[j].isUsed

\* C27 witness: a User is stored while a second record of its phone is
\* still unused.
C27_Witness ==
    \E i \in 1..Len(users), j, k \in 1..Len(otps) :
        /\ otps[j].phone = users[i].phone /\ otps[j].isUsed
        /\ otps[k].phone = users[i].phone /\ ~otps[k].isUsed

\* C28: a verify-otp call that fails with 400 "Invalid or expired OTP"
\* leaves the store as it was.  Its lookup writes nothing, and the turn that
\* answers writes nothing and ends the call: no OTP record is marked and no
\* User is created or updated, whatever profile the request carries.
C28_FailedOtpCheckWritesNothing ==
    [][\A r \in ReqIds :
        /\ VerifyLookupStep(r) =>
            /\ otps' = otps /\ users' = users /\ services' = services
        /\ (VerifyCheckStep(r) /\ reqs[r].validOtp = None) =>
            /\ reqs'[r].pc = "done"
            /\ reqs'[r].res = Some(ErrorResponse(400, ErrInvalidOtp))
            /\ otps' = otps /\ users' = users /\ services' = services
        /\ (VerifyCheckStep(r)
                /\ reqs'[r].res = Some(ErrorResponse(400, ErrInvalidOtp))) =>
            /\ reqs[r].validOtp = None
            /\ otps' = otps /\ users' = users /\ services' = services
    ]_vars

\* C28 witness: a call carrying a full profile has looked up a wrong code
\* for a phone that has an unused, unexpired record and no User.
C28_Witness ==
    \E r \in ReqIds, i \in 1..Len(otps) :
        /\ reqs[r].pc = "checkOtp"
        /\ reqs[r].validOtp = None
        /\ AllPresent(reqs[r].profile)
        /\ otps[i].phone = reqs[r].cleanPhone
        /\ otps[i].otp # reqs[r].otp
        /\ ~otps[i].isUsed
        /\ otps[i].expiresAt > now
        /\ users = <<>>

\* Slot r holds a verify-otp call that has started and not yet answered.
VerifyInFlight(r) == reqs[r].kind = "verify" /\ reqs[r].pc \notin {"idle", "done"}

\* C29: whenever no verify-otp request is in flight, GET /api/user/:id
\* shows isVerified true for every stored User; and whenever it shows
\* isVerified false for a User, a request in flight has created that User
\* and has not yet run its updateUser.
C29_UnverifiedOnlyInFlight ==
    /\ (\A r \in ReqIds : ~VerifyInFlight(r)) =>
            \A id \in 1..Len(users) :
                /\ GetUserProfile(users, id).status = 200
                /\ GetUserProfile(users, id).user[1].isVerified
    /\ \A id \in 1..Len(users) :
            ~GetUserProfile(users, id).user[1].isVerified =>
                \E r \in ReqIds :
                    /\ VerifyInFlight(r)
                    /\ reqs[r].pc = "updateUser"
                    /\ reqs[r].user[1].id = id
    /\ GetUserProfile(users, Len(users) + 1) = ErrorResponse(404, ErrUserNotFound)

\* C29 witness: GET /api/user/:id shows isVerified false for the User a
\* request in flight has just created, while the other slot's request for
\* the same phone has ended with success.
C29_Witness ==
    \E r, q \in ReqIds, id \in 1..Len(users) :
        /\ GetUserProfile(users, id).user[1].isVerified = FALSE
        /\ reqs[r].pc = "updateUser"
        /\ reqs[r].user[1].id = id
        /\ reqs[q].pc = "done" /\ reqs[q].kind = "verify"
        /\ reqs[q].res[1].status = 200

\* C30: in the PhoneAuth flow loading is true exactly while a submit
\* handler awaits its request, and whenever loading is true it is false
\* again later: the handler's resumption resets it whether the request
\* answered with success or with an error, and a phone rejected by the
\* handler itself starts no request and leaves loading false.
\* onAuthSuccess is invoked only in the resumption of handleOtpSubmit or
\* handleDetailsSubmit on a verify-otp answer with success, with the user of
\* that answer, who is a stored, verified User.
C30_LoadingResetAndAuthOnSuccess ==
    /\ client.loading ~> ~client.loading
    /\ [](/\ client.loading <=> (client.awaiting # "none")
          /\ client.authUser # None =>
                \E i \in 1..Len(users) :
                    /\ users[i].isVerified
                    /\ client.authUser = Some(PublicUser(users[i])))
    /\ [][/\ (~client.loading /\ client'.loading) =>
                \E r \in SeqIds : Free(r) /\ reqs'[r].pc # "idle" /\ reqs'[r] # reqs[r]
          /\ \A h \in {"phone", "otp", "details"} : ResumeStep(h) => ~client'.loading
          /\ (client'.toast # client.toast /\ client'.toast = "Invalid Phone Number") =>
                /\ Len(CleanPhone(client.phone)) < 10
                /\ ~client'.loading
                /\ reqs' = reqs /\ otps' = otps
          /\ client'.authUser # client.authUser =>
                /\ ResumeStep("otp") \/ ResumeStep("details")
                /\ \E r \in SeqIds :
                    /\ reqs[r].pc = "done" /\ reqs[r].kind = "verify"
                    /\ reqs[r].res[1].status = 200
                    /\ client'.authUser = reqs[r].res[1].user
                    /\ client'.authUser # None
          /\ ((ResumeStep("otp") \/ ResumeStep("details"))
                /\ client'.toast \in {"Welcome Back!", "Registration Complete!"}) =>
                \E r \in SeqIds :
                    /\ reqs[r].pc = "done" /\ reqs[r].kind = "verify"
                    /\ reqs[r].res[1].status = 200
                    /\ client'.authUser = reqs[r].res[1].user
       ]_vars

\* C30 witness: handleDetailsSubmit has been resumed on a success answer:
\* onAuthSuccess got the registered User and loading is false again.
C30_Witness ==
    /\ client.authUser # None
    /\ client.toast = "Registration Complete!"
    /\ ~client.loading
    /\ client.step = "details"

====
